---- MODULE Spec2Model ----
(***************************************************************************)
(* Model of m3u8_telegram_bot.py: StreamDownloader (admission registry,    *)
(* download coroutine, split_and_send, update_status) and the TelegramBot  *)
(* handlers that call it (handle_url, handle_callback).                    *)
(*                                                                         *)
(* Every handler invocation is a coroutine on one asyncio event loop: the  *)
(* code between two awaits runs without interruption, so one action of the *)
(* model is one await together with the code that follows it up to the     *)
(* next await.  Coroutines of different invocations interleave at awaits.  *)
(* The Telegram calls (edit_text, send_message, send_document) and yt-dlp  *)
(* (extract_info, download) are external: their outcomes are inputs.       *)
(* File contents are sequences of byte offsets, so a file of S bytes is    *)
(* <<1, ..., S>> and a chunk is the subsequence that was read.             *)
(***************************************************************************)
EXTENDS Integers, Sequences, FiniteSets, TLC

\* ------------------------------------------------------------- bounds
MaxSize == 3          \* largest artifact the fetcher produces, in bytes
MaxBytes == 2         \* max_size_mb * 1024 * 1024 of the constructor, scaled down

Jobs == {1, 2}        \* handler invocations that can be live at once (slots are reused)
Users == {"u1", "u2"}
Urls == {"a"}
Qualities == {"auto"}

NoPath == <<>>
NoFile == <<>>
EmptyDict == [x \in {} |-> 0]

VARIABLES
    max_bytes,          \* StreamDownloader.max_bytes
    downloads,          \* StreamDownloader.downloads (its keys)
    pending_downloads,  \* TelegramBot.pending_downloads
    files,              \* the files of temp_dir: path -> content
    task                \* the coroutines of handle_callback / download

vars == <<max_bytes, downloads, pending_downloads, files, task>>

\* ------------------------------------------------------------- helpers
Bytes(n) == [i \in 1..n |-> i]

Min(a, b) == IF a < b THEN a ELSE b

\* outtmpl: temp_dir/%(title)s_{quality}.%(ext)s; the title is that of the url
ArtifactPath(url, quality) == <<url, quality, 0, 0>>

\* part_name = f"{name}_part{part+1}of{total_parts}{ext}" in temp_dir
PartPath(file_path, part, total_parts) ==
    <<file_path[1], file_path[2], part + 1, total_parts>>

Exists(fs, path) == path \in DOMAIN fs

WriteFile(fs, path, content) ==
    [p \in DOMAIN fs \cup {path} |-> IF p = path THEN content ELSE fs[p]]

\* os.remove leaves the file where it is
RemoveFileKeeps(fs, path) == fs

RemoveFile(fs, path) == [p \in DOMAIN fs \ {path} |-> fs[p]]

\* if os.path.exists(file_path): os.remove(file_path)
RemoveIfExists(fs, path) == IF Exists(fs, path) THEN RemoveFile(fs, path) ELSE fs

IdleTask ==
    [pc |-> "idle", user_id |-> "none", url |-> "none", quality |-> "none",
     admitted |-> FALSE, released |-> 0, attempts |-> 0,
     file_path |-> NoPath, size |-> -1, f |-> NoFile, f_pos |-> 0,
     total_parts |-> 0, part |-> 0, doc |-> NoFile, err |-> "none",
     written |-> <<>>, sent |-> <<>>, terminal |-> <<>>, cancel_req |-> FALSE,
     fetched |-> "none", send_calls |-> 0,
     events |-> <<>>, scheduled |-> <<>>, ran |-> 0, progress_log |-> <<>>,
     clock |-> 0]

Init ==
    /\ max_bytes = MaxBytes
    /\ downloads = {}
    /\ pending_downloads = EmptyDict
    /\ files = EmptyDict
    /\ task = [j \in Jobs |-> IdleTask]

\* ------------------------------------------------------------- dicts
DictSet(d, k, v) == [x \in DOMAIN d \cup {k} |-> IF x = k THEN v ELSE d[x]]

\* if k in d: del d[k]
DictDel(d, k) == [x \in DOMAIN d \ {k} |-> d[x]]

\* ------------------------------------------------------------- registry
\* the check always passes
IsBusyNever(d, user_id) == FALSE

\* if user_id in self.downloads
IsBusy(d, user_id) == user_id \in d

\* self.downloads[user_id] = True
Admit(d, user_id) == d \cup {user_id}

\* the finally clause forgets the slot
ReleaseNothing(d, user_id) == d

\* finally: if user_id in self.downloads: del self.downloads[user_id]
Release(d, user_id) == d \ {user_id}

\* ------------------------------------------------------------- coroutine ends
Free(j) == task[j].pc \in {"idle", "done"}

\* the lowest free slot takes the next invocation (slots are interchangeable)
FreeSlot(j) == Free(j) /\ \A k \in Jobs : k < j => ~Free(k)

\* the locals of a coroutine that has ended are gone: what stays is who it
\* served, whether it was admitted and released, the terminal status it issued
\* and the number of failed edits of its last status update
Ended(t) ==
    [IdleTask EXCEPT !.pc = "done", !.user_id = t.user_id, !.admitted = t.admitted,
                     !.released = t.released, !.attempts = t.attempts,
                     !.terminal = t.terminal]

\* an exception leaves handle_callback through its except clause: the pending
\* url of the user is not deleted
CallbackRaises(j, t) ==
    /\ task' = [task EXCEPT ![j] = Ended(t)]
    /\ UNCHANGED pending_downloads

\* download returned: if user_id in self.pending_downloads: del ...
CallbackReturns(j, t) ==
    /\ task' = [task EXCEPT ![j] = Ended(t)]
    /\ pending_downloads' = DictDel(pending_downloads, t.user_id)

\* ------------------------------------------------------------- TelegramBot
\* handle_url: store the url, then show the keyboard; whether send_message
\* raises changes nothing the program keeps
HandleUrl(u, url) ==
    /\ pending_downloads' = DictSet(pending_downloads, u, url)
    /\ UNCHANGED <<max_bytes, downloads, files, task>>

\* handle_callback, query.data == "cancel": after query.answer() the pending
\* url of the user goes; when answer() raises nothing is changed.  No task is
\* touched.  With `observed` the step also notes, in cancel_req, that the
\* request came while a download of the user was in its Fetching stage (the
\* note is not program state: nothing in the code reads or writes it).
Cancel(u, observed) ==
    /\ \E answered \in BOOLEAN :
         IF answered
         THEN /\ pending_downloads' = DictDel(pending_downloads, u)
              /\ task' = [j \in Jobs |->
                            IF /\ observed
                               /\ task[j].user_id = u
                               /\ task[j].pc = "st_downloading"
                            THEN [task[j] EXCEPT !.cancel_req = TRUE]
                            ELSE task[j]]
         ELSE UNCHANGED <<pending_downloads, task>>
    /\ UNCHANGED <<max_bytes, downloads, files>>

CancelCallback(u) == Cancel(u, FALSE)

CancelObserved(u) == Cancel(u, TRUE)

\* handle_callback, query.data == "quality_<q>", up to the first edit
QualityCallback(j, u, quality) ==
    /\ FreeSlot(j)
    /\ u \in DOMAIN pending_downloads
    /\ task' = [task EXCEPT ![j] =
                  [IdleTask EXCEPT !.pc = "cb_edit", !.user_id = u,
                                   !.url = pending_downloads[u],
                                   !.quality = quality]]
    /\ UNCHANGED <<max_bytes, downloads, pending_downloads, files>>

\* await query.edit_message_text("Starting download..."), then the call of
\* download up to its first await: the busy check and the admission
StartingEdit(j) ==
    /\ task[j].pc = "cb_edit"
    /\ \E ok \in BOOLEAN :
         LET t == task[j] IN
         IF ~ok
         THEN CallbackRaises(j, t) /\ UNCHANGED downloads
         ELSE IF IsBusy(downloads, t.user_id)
         THEN /\ task' = [task EXCEPT ![j] =
                            [t EXCEPT !.pc = "busy_send"]]
              /\ UNCHANGED <<downloads, pending_downloads>>
         ELSE /\ downloads' = Admit(downloads, t.user_id)
              /\ task' = [task EXCEPT ![j] =
                            [t EXCEPT !.pc = "st_analyze",
                                      !.admitted = TRUE]]
              /\ UNCHANGED pending_downloads
    /\ UNCHANGED <<max_bytes, files>>

\* the busy return goes through the finally clause of download
BusySendReleasing(j) ==
    /\ task[j].pc = "busy_send"
    /\ downloads' = Release(downloads, task[j].user_id)
    /\ \E ok \in BOOLEAN :
         LET t == [task[j] EXCEPT !.released =
                      IF IsBusy(downloads, task[j].user_id) THEN @ + 1 ELSE @]
         IN  IF ok THEN CallbackReturns(j, t) ELSE CallbackRaises(j, t)
    /\ UNCHANGED <<max_bytes, files>>

\* await chat.send_message("You already have an active download"); return
BusySend(j) ==
    /\ task[j].pc = "busy_send"
    /\ \E ok \in BOOLEAN :
         IF ok THEN CallbackReturns(j, task[j]) ELSE CallbackRaises(j, task[j])
    /\ UNCHANGED <<max_bytes, downloads, files>>

\* ------------------------------------------------------------- update_status
StatusRetries == 3

\* the outcomes Telegram gives to successive edit_text calls: the edits fail
\* up to some attempt and succeed from it on, or fail throughout
EditOutcomes ==
    {[i \in 1..StatusRetries + 1 |-> i >= k] : k \in 1..StatusRetries + 2}

\* for _ in range(3): try: await message.edit_text(text); break
\* except Exception: log; await asyncio.sleep(1)
\* from attempt i on; the result says how many edits failed, whether the text
\* was delivered and whether an exception leaves update_status
RECURSIVE EditLoop(_, _)
EditLoop(outcomes, i) ==
    IF i > StatusRetries
    THEN [failed |-> i - 1, delivered |-> FALSE, raised |-> FALSE]
    ELSE IF outcomes[i]
    THEN [failed |-> i - 1, delivered |-> TRUE, raised |-> FALSE]
    ELSE EditLoop(outcomes, i + 1)

\* the last failure is re-raised instead of dropped
update_status_raising(outcomes) ==
    LET r == EditLoop(outcomes, 1) IN [r EXCEPT !.raised = ~r.delivered]

update_status(outcomes) == EditLoop(outcomes, 1)

\* the handler logs the error and issues no status
RaisedSilent(t, e) ==
    [t EXCEPT !.pc = "st_failed", !.attempts = 0, !.err = e, !.f = NoFile,
              !.f_pos = 0, !.total_parts = 0, !.part = 0, !.doc = NoFile,
              !.size = -1, !.written = <<>>]

\* except Exception as e: the handler of download; it issues the Failed status
Raised(t, e) ==
    [t EXCEPT !.pc = "st_failed", !.attempts = 0, !.err = e,
              !.terminal = Append(@, "failed"), !.f = NoFile, !.f_pos = 0,
              !.total_parts = 0, !.part = 0, !.doc = NoFile, !.size = -1,
              !.written = <<>>]

\* finally: the slot is released; download is left
Finally(t) ==
    [t EXCEPT !.released = IF IsBusy(downloads, t.user_id) THEN @ + 1 ELSE @]

\* an exception that leaves update_status (the code never produces one)
StatusRaises(j, t) ==
    IF t.pc = "st_failed"
    THEN /\ downloads' = Release(downloads, t.user_id)
         /\ CallbackRaises(j, Finally(t))
         /\ UNCHANGED files
    ELSE /\ task' = [task EXCEPT ![j] = Raised(t, "status update failed")]
         /\ UNCHANGED <<downloads, pending_downloads, files>>

\* await self.update_status(status_msg, text): the edits and sleeps of the
\* call touch nothing the program keeps, so the call is one step; Cont is the
\* code that follows the call up to the next await.  Nothing of the call but
\* an exception reaches the caller.
StatusEdit(j, Cont(_, _)) ==
    \E raised \in {update_status(outcomes).raised : outcomes \in EditOutcomes} :
      IF raised THEN StatusRaises(j, task[j]) ELSE Cont(j, task[j])

\* the same call, with the number of edits that failed noted in attempts (the
\* note is not program state: update_status returns nothing)
StatusEditObserved(j, Cont(_, _)) ==
    \E outcomes \in EditOutcomes :
      LET r == update_status(outcomes)
          t == [task[j] EXCEPT !.attempts = r.failed]
      IN  IF r.raised THEN StatusRaises(j, t) ELSE Cont(j, t)

\* ------------------------------------------------------------- download
\* yt-dlp writes the expected path unless a file is already there; `produced`
\* is the size it writes, -1 when nothing appears under the expected name
YdlDownload(fs, path, produced) ==
    IF Exists(fs, path) \/ produced = -1 THEN fs
    ELSE WriteFile(fs, path, Bytes(produced))

\* the texts of the two exceptions download raises on the fetched file
NotFoundMsg == "Download failed - file not found"

EmptyMsg == "Downloaded file is empty"

\* what is at the expected path when ydl.download has returned (noted in
\* fetched, which is "none" until ydl.download is called and "raised" when it
\* raised; the note is not program state)
OnDisk(fs, path) ==
    IF ~Exists(fs, path) THEN "missing"
    ELSE IF fs[path] = <<>> THEN "empty"
    ELSE "data"

\* the size of the file is not looked at
DownloadedAnySize(fs, path) ==
    IF ~Exists(fs, path) THEN NotFoundMsg ELSE "ok"

\* if not os.path.exists(file_path): raise ...; if size == 0: raise ...
Downloaded(fs, path) ==
    IF ~Exists(fs, path) THEN NotFoundMsg
    ELSE IF Len(fs[path]) = 0 THEN EmptyMsg
    ELSE "ok"

\* if size > self.max_bytes
NeedsSplit(size, limit) == size > limit

\* the exception of extract_info is swallowed and download goes on to fetch
ContAnalyzeUnchecked(j, t) ==
    /\ \E resolved \in BOOLEAN :
         task' = [task EXCEPT ![j] =
                    [t EXCEPT !.pc = "st_downloading", !.attempts = 0,
                              !.file_path = IF resolved
                                            THEN ArtifactPath(t.url, t.quality)
                                            ELSE NoPath]]
    /\ UNCHANGED <<downloads, pending_downloads, files>>

\* info = ydl.extract_info(url, download=False); ydl.prepare_filename(info)
ContAnalyze(j, t) ==
    /\ \E resolved \in BOOLEAN :
         task' = [task EXCEPT ![j] =
                    IF resolved
                    THEN [t EXCEPT !.pc = "st_downloading", !.attempts = 0,
                                   !.file_path = ArtifactPath(t.url, t.quality)]
                    ELSE Raised(t, "extract_info failed")]
    /\ UNCHANGED <<downloads, pending_downloads, files>>

\* ydl.download([url]) and the checks of the result, up to the next status
ContDownloading(j, t) ==
    /\ \E raises \in BOOLEAN, produced \in -1..MaxSize :
         LET fs == IF raises THEN files ELSE YdlDownload(files, t.file_path, produced)
             d  == Downloaded(fs, t.file_path)
             size == Len(fs[t.file_path])
             t1 == [t EXCEPT !.fetched = OnDisk(fs, t.file_path)]
         IN  /\ raises => produced = -1
             /\ files' = fs
             /\ task' = [task EXCEPT ![j] =
                  IF raises
                  THEN Raised([t EXCEPT !.fetched = "raised"], "download failed")
                  ELSE IF d # "ok" THEN Raised(t1, d)
                  ELSE IF NeedsSplit(size, max_bytes)
                  THEN [t1 EXCEPT !.pc = "st_split", !.attempts = 0, !.size = size]
                  ELSE [t1 EXCEPT !.pc = "st_upload", !.attempts = 0, !.size = size]]
    /\ UNCHANGED <<downloads, pending_downloads>>

StatusAnalyzing(j) ==
    /\ task[j].pc = "st_analyze"
    /\ StatusEdit(j, ContAnalyze)
    /\ UNCHANGED <<max_bytes>>

StatusDownloading(j) ==
    /\ task[j].pc = "st_downloading"
    /\ StatusEdit(j, ContDownloading)
    /\ UNCHANGED <<max_bytes>>

\* ------------------------------------------------------------- split_and_send
\* file_size // self.max_bytes
TotalPartsFloor(file_size, limit) == file_size \div limit

\* total_parts = -(-file_size // self.max_bytes)
TotalParts(file_size, limit) == -((-file_size) \div limit)

\* content = f.read(self.max_bytes) at offset pos of the open file
ReadChunk(f, pos, n) == SubSeq(f, pos + 1, Min(pos + n, Len(f)))

\* split_and_send returned (or the single send did): the artifact is removed
\* and the Completed status is issued
Completing(t) ==
    [t EXCEPT !.pc = "st_completed", !.attempts = 0, !.f = NoFile, !.f_pos = 0,
              !.total_parts = 0, !.part = 0, !.doc = NoFile,
              !.terminal = Append(@, "completed")]

\* the head of "for part in range(total_parts)" with t.part the next index:
\* read a chunk, stop when the range or the file is exhausted, write the part
\* file and go on to the status update
SplitIter(j, t) ==
    LET content == ReadChunk(t.f, t.f_pos, max_bytes) IN
    IF t.part >= t.total_parts \/ content = <<>>
    THEN /\ files' = RemoveIfExists(files, t.file_path)
         /\ task' = [task EXCEPT ![j] = Completing(t)]
    ELSE /\ files' = WriteFile(files, PartPath(t.file_path, t.part, t.total_parts),
                               content)
         /\ task' = [task EXCEPT ![j] =
                       [t EXCEPT !.pc = "st_part", !.attempts = 0, !.f_pos = @ + Len(content),
                                 !.written = Append(@, content)]]

\* the entry of split_and_send: getsize, total_parts, open, first iteration
ContSplit(j, t) ==
    /\ IF ~Exists(files, t.file_path)
       THEN /\ task' = [task EXCEPT ![j] = Raised(t, "no such file")]
            /\ UNCHANGED files
       ELSE SplitIter(j, [t EXCEPT !.f = files[t.file_path], !.f_pos = 0, !.part = 0,
                            !.total_parts =
                                TotalParts(Len(files[t.file_path]), max_bytes)])
    /\ UNCHANGED <<downloads, pending_downloads>>

\* open(part_path, 'rb') after the "Sending part" status
ContPart(j, t) ==
    LET part_path == PartPath(t.file_path, t.part, t.total_parts) IN
    /\ task' = [task EXCEPT ![j] =
                  IF Exists(files, part_path)
                  THEN [t EXCEPT !.pc = "send_part", !.attempts = 0, !.doc = files[part_path]]
                  ELSE Raised(t, "no such file")]
    /\ UNCHANGED <<downloads, pending_downloads, files>>

StatusSplitting(j) ==
    /\ task[j].pc = "st_split"
    /\ StatusEdit(j, ContSplit)
    /\ UNCHANGED <<max_bytes>>

StatusPart(j) ==
    /\ task[j].pc = "st_part"
    /\ StatusEdit(j, ContPart)
    /\ UNCHANGED <<max_bytes>>

\* the exception of send_document is swallowed
SendFailedSwallowed(t) == Completing(t)

\* what follows a send_document that raised: the exception reaches the
\* handler of download
SendFailed(t) == Raised(t, "send_document failed")

\* await chat.send_document(part_file, ...); os.remove(part_path)
SendPart(j) ==
    /\ task[j].pc = "send_part"
    /\ \E ok \in BOOLEAN :
         LET t == [task[j] EXCEPT !.send_calls = @ + 1]
             part_path == PartPath(t.file_path, t.part, t.total_parts)
             t1 == [t EXCEPT !.doc = NoFile,
                      !.sent = Append(@, [name |-> part_path, content |-> t.doc])]
         IN  IF ~ok
             THEN /\ task' = [task EXCEPT ![j] = SendFailed(t)]
                  /\ UNCHANGED files
             ELSE IF ~Exists(files, part_path)
             THEN /\ task' = [task EXCEPT ![j] = Raised(t1, "no such file")]
                  /\ UNCHANGED files
             ELSE /\ files' = RemoveFile(files, part_path)
                  /\ task' = [task EXCEPT ![j] = [t1 EXCEPT !.pc = "part_sleep"]]
    /\ UNCHANGED <<max_bytes, downloads, pending_downloads>>

\* the loop starts over from the first part after every part
PartSleepRewinds(j) ==
    /\ task[j].pc = "part_sleep"
    /\ SplitIter(j, [task[j] EXCEPT !.part = 0, !.f_pos = 0, !.written = <<>>,
                                    !.sent = <<>>, !.send_calls = 0])
    /\ UNCHANGED <<max_bytes, downloads, pending_downloads>>

\* await asyncio.sleep(1), then the next iteration
PartSleep(j) ==
    /\ task[j].pc = "part_sleep"
    /\ SplitIter(j, [task[j] EXCEPT !.part = @ + 1])
    /\ UNCHANGED <<max_bytes, downloads, pending_downloads>>

\* ------------------------------------------------------------- single upload
\* with open(file_path, 'rb') as f, after the "Uploading" status
ContUpload(j, t) ==
    /\ task' = [task EXCEPT ![j] =
                  IF Exists(files, t.file_path)
                  THEN [t EXCEPT !.pc = "send_whole", !.attempts = 0, !.doc = files[t.file_path]]
                  ELSE Raised(t, "no such file")]
    /\ UNCHANGED <<downloads, pending_downloads, files>>

StatusUploading(j) ==
    /\ task[j].pc = "st_upload"
    /\ StatusEdit(j, ContUpload)
    /\ UNCHANGED <<max_bytes>>

\* await chat.send_document(f, ...); remove the artifact; Completed status
SendWhole(j) ==
    /\ task[j].pc = "send_whole"
    /\ \E ok \in BOOLEAN :
         LET t == [task[j] EXCEPT !.send_calls = @ + 1] IN
         IF ~ok
         THEN /\ task' = [task EXCEPT ![j] = SendFailed(t)]
              /\ UNCHANGED files
         ELSE /\ files' = RemoveIfExists(files, t.file_path)
              /\ task' = [task EXCEPT ![j] =
                   Completing([t EXCEPT !.sent =
                       Append(@, [name |-> t.file_path, content |-> t.doc])])]
    /\ UNCHANGED <<max_bytes, downloads, pending_downloads>>

\* ------------------------------------------------------------- the end of download
\* finally: release the slot; back in handle_callback the pending url goes
ContFinally(j, t) ==
    /\ downloads' = Release(downloads, t.user_id)
    /\ CallbackReturns(j, Finally(t))
    /\ UNCHANGED files

StatusCompleted(j) ==
    /\ task[j].pc = "st_completed"
    /\ StatusEdit(j, ContFinally)
    /\ UNCHANGED <<max_bytes>>

StatusFailed(j) ==
    /\ task[j].pc = "st_failed"
    /\ StatusEdit(j, ContFinally)
    /\ UNCHANGED <<max_bytes>>

StatusCompletedObserved(j) ==
    /\ task[j].pc = "st_completed"
    /\ StatusEditObserved(j, ContFinally)
    /\ UNCHANGED <<max_bytes>>

StatusFailedObserved(j) ==
    /\ task[j].pc = "st_failed"
    /\ StatusEditObserved(j, ContFinally)
    /\ UNCHANGED <<max_bytes>>

\* ------------------------------------------------------------- specification
Next ==
    \/ \E u \in Users, url \in Urls : HandleUrl(u, url)
    \/ \E u \in Users : CancelCallback(u)
    \/ \E j \in Jobs, u \in Users, q \in Qualities : QualityCallback(j, u, q)
    \/ \E j \in Jobs : StartingEdit(j)
    \/ \E j \in Jobs : BusySend(j)
    \/ \E j \in Jobs : StatusAnalyzing(j)
    \/ \E j \in Jobs : StatusDownloading(j)
    \/ \E j \in Jobs : StatusSplitting(j)
    \/ \E j \in Jobs : StatusPart(j)
    \/ \E j \in Jobs : SendPart(j)
    \/ \E j \in Jobs : PartSleep(j)
    \/ \E j \in Jobs : StatusUploading(j)
    \/ \E j \in Jobs : SendWhole(j)
    \/ \E j \in Jobs : StatusCompleted(j)
    \/ \E j \in Jobs : StatusFailed(j)

Spec == Init /\ [][Next]_vars

\* ------------------------------------------------------------- one download at a time
\* The same program with one invocation of handle_callback at a time, the
\* cancel requests noted and the failed edits of the terminal status counted:
\* the busy branch is never taken.
SoloJobs == {1}

NextSolo ==
    \/ \E u \in Users, url \in Urls : HandleUrl(u, url)
    \/ \E u \in Users : CancelObserved(u)
    \/ \E j \in SoloJobs, u \in Users, q \in Qualities : QualityCallback(j, u, q)
    \/ \E j \in SoloJobs : StartingEdit(j)
    \/ \E j \in SoloJobs : StatusAnalyzing(j)
    \/ \E j \in SoloJobs : StatusDownloading(j)
    \/ \E j \in SoloJobs : StatusSplitting(j)
    \/ \E j \in SoloJobs : StatusPart(j)
    \/ \E j \in SoloJobs : SendPart(j)
    \/ \E j \in SoloJobs : PartSleep(j)
    \/ \E j \in SoloJobs : StatusUploading(j)
    \/ \E j \in SoloJobs : SendWhole(j)
    \/ \E j \in SoloJobs : StatusCompletedObserved(j)
    \/ \E j \in SoloJobs : StatusFailedObserved(j)

SpecSolo == Init /\ [][NextSolo]_vars

\* the steps of the invocation in slot j: each is an await of a call to
\* Telegram or the code up to it
AdvanceSolo(j) ==
    \/ StartingEdit(j)
    \/ StatusAnalyzing(j)
    \/ StatusDownloading(j)
    \/ StatusSplitting(j)
    \/ StatusPart(j)
    \/ SendPart(j)
    \/ PartSleep(j)
    \/ StatusUploading(j)
    \/ SendWhole(j)
    \/ StatusCompletedObserved(j)
    \/ StatusFailedObserved(j)

\* every call to the fetcher and to Telegram returns, with a result or an
\* exception, and the event loop resumes the coroutine that awaited it
SpecSoloLive ==
    Init /\ [][NextSolo]_vars /\ \A j \in SoloJobs : WF_vars(AdvanceSolo(j))

\* ------------------------------------------------------------- split_and_send alone
\* split_and_send for every file size and part size of the bounds: a download
\* of u1 stands before its "Splitting" status with the artifact on disk.  The
\* size it saw is above max_bytes; the file on disk may be another one by now.
MaxSplitSize == 5
MaxSplitPart == 3

InitSplit ==
    /\ max_bytes \in 1..MaxSplitPart
    /\ downloads = {"u1"}
    /\ pending_downloads = [u \in {"u1"} |-> "a"]
    /\ \E S \in 1..MaxSplitSize :
         /\ files = [p \in {ArtifactPath("a", "auto")} |-> Bytes(S)]
         /\ task = [j \in Jobs |->
                      IF j = 1
                      THEN [IdleTask EXCEPT
                              !.pc = "st_split", !.user_id = "u1", !.url = "a",
                              !.quality = "auto", !.admitted = TRUE,
                              !.file_path = ArtifactPath("a", "auto"),
                              !.fetched = "data",
                              !.size = IF S > max_bytes THEN S ELSE max_bytes + 1]
                      ELSE IdleTask]

NextSplit ==
    \/ \E j \in SoloJobs : StatusSplitting(j)
    \/ \E j \in SoloJobs : StatusPart(j)
    \/ \E j \in SoloJobs : SendPart(j)
    \/ \E j \in SoloJobs : PartSleep(j)
    \/ \E j \in SoloJobs : StatusCompleted(j)
    \/ \E j \in SoloJobs : StatusFailed(j)

SpecSplit == InitSplit /\ [][NextSplit]_vars

\* ------------------------------------------------------------- progress_hook
\* The fetch of one download with the progress events yt-dlp hands to
\* progress_hook while ydl.download runs.  ydl.download blocks the event loop,
\* so the callbacks the hook schedules run after it has returned, each as a
\* coroutine of its own that interleaves with download at its awaits.
MaxEvents == 2        \* progress events of one fetch
MaxTime == 2          \* seconds on the clock

\* d['total_bytes']: the key is absent, or its value is None, 0 or a size
Totals == {"absent", "none", "zero", "positive"}

\* the dictionaries d that yt-dlp passes to the hook
ProgressEvents ==
    {[status |-> "finished", total |-> "absent"]}
        \cup {[status |-> "downloading", total |-> x] : x \in Totals}

EventSeqs == UNION {[1..n -> ProgressEvents] : n \in 0..MaxEvents}

\* progress_hook(d): the text it schedules, "nothing" when it schedules none.
\* d['downloaded_bytes'] / d['total_bytes'] raises TypeError on None and
\* ZeroDivisionError on 0; the except clause of the hook logs it.
progress_hook(d) ==
    IF d.status # "downloading" THEN "nothing"
    ELSE IF d.total = "absent" THEN "bytes"
    ELSE IF d.total = "positive" THEN "percent"
    ELSE "nothing"

IsScheduled(text) == text # "nothing"

\* context.job_queue.run_once(lambda _: self.update_status(...), 0) for every
\* event of the fetch, in order
Hooked(t, evs) ==
    [t EXCEPT !.events = evs,
              !.scheduled = SelectSeq([i \in 1..Len(evs) |-> progress_hook(evs[i])],
                                      IsScheduled)]

\* ydl.download([url]) with its progress events, and what follows it
ContDownloadingProgress(j, t) ==
    \E evs \in EventSeqs : ContDownloading(j, Hooked(t, evs))

StatusDownloadingProgress(j) ==
    /\ task[j].pc = "st_downloading"
    /\ StatusEdit(j, ContDownloadingProgress)
    /\ UNCHANGED <<max_bytes>>

\* the job queue runs the next scheduled callback: update_status(status_msg,
\* progress_text) on the status message of the download.  The entry of
\* progress_log says when the call was made, whether an edit got through and
\* whether the terminal status of the download had been issued before.
ProgressRun(j) ==
    /\ task[j].pc \notin {"idle", "done"}
    /\ task[j].ran < Len(task[j].scheduled)
    /\ \E outcomes \in EditOutcomes :
         task' = [task EXCEPT ![j] =
                    [task[j] EXCEPT
                       !.ran = @ + 1,
                       !.progress_log =
                           Append(@, [text |-> task[j].scheduled[task[j].ran + 1],
                                      time |-> task[j].clock,
                                      delivered |-> update_status(outcomes).delivered,
                                      late |-> task[j].terminal # <<>>])]]
    /\ UNCHANGED <<max_bytes, downloads, pending_downloads, files>>

\* a second passes
Tick(j) ==
    /\ task[j].pc \notin {"idle", "done"}
    /\ task[j].clock < MaxTime
    /\ task' = [task EXCEPT ![j] = [task[j] EXCEPT !.clock = @ + 1]]
    /\ UNCHANGED <<max_bytes, downloads, pending_downloads, files>>

\* a download of u1 stands before its "Downloading" status
InitProgress ==
    /\ max_bytes = MaxBytes
    /\ downloads = {"u1"}
    /\ pending_downloads = [u \in {"u1"} |-> "a"]
    /\ files = EmptyDict
    /\ task = [j \in Jobs |->
                 IF j = 1
                 THEN [IdleTask EXCEPT
                         !.pc = "st_downloading", !.user_id = "u1", !.url = "a",
                         !.quality = "auto", !.admitted = TRUE,
                         !.file_path = ArtifactPath("a", "auto")]
                 ELSE IdleTask]

NextProgress ==
    \/ \E j \in SoloJobs : StatusDownloadingProgress(j)
    \/ \E j \in SoloJobs : ProgressRun(j)
    \/ \E j \in SoloJobs : Tick(j)
    \/ \E j \in SoloJobs : StatusSplitting(j)
    \/ \E j \in SoloJobs : StatusPart(j)
    \/ \E j \in SoloJobs : SendPart(j)
    \/ \E j \in SoloJobs : PartSleep(j)
    \/ \E j \in SoloJobs : StatusUploading(j)
    \/ \E j \in SoloJobs : SendWhole(j)
    \/ \E j \in SoloJobs : StatusCompleted(j)
    \/ \E j \in SoloJobs : StatusFailed(j)

SpecProgress == InitProgress /\ [][NextProgress]_vars

\* ------------------------------------------------------------- properties
\* a download that was admitted and has not left download yet
Active(j) == task[j].admitted /\ task[j].pc \notin {"idle", "done"}

ActiveFor(u) == {j \in Jobs : Active(j) /\ task[j].user_id = u}

\* C1: at every instant every requester has at most one admitted download that
\* is still running, and a call that found the requester busy is not admitted
\* while it reports busy.
OneActiveJobPerRequester ==
    /\ \A u \in Users : Cardinality(ActiveFor(u)) <= 1
    /\ \A j \in Jobs : task[j].pc = "busy_send" => ~task[j].admitted

\* C1 witness: a second call for a requester with a live download was rejected
BusyCallRejected ==
    \E j, k \in Jobs :
        /\ j # k
        /\ task[j].pc = "busy_send"
        /\ Active(k)
        /\ task[k].user_id = task[j].user_id

\* C2: once an admitted download has ended (Completed or Failed, by any path)
\* its slot was released exactly once and the registry holds its requester
\* only for another download that is running now; a running download is never
\* released early, and every registry entry belongs to a running download.
ReleasedOnEveryPath ==
    /\ \A j \in Jobs :
          /\ task[j].pc = "done" /\ task[j].admitted => task[j].released = 1
          /\ Active(j) => task[j].released = 0 /\ task[j].user_id \in downloads
    /\ \A u \in downloads : ActiveFor(u) # {}

\* C2 witness: a download that ended Failed and whose requester is out of the
\* registry
FailedJobReleased ==
    \E j \in Jobs :
        /\ task[j].pc = "done"
        /\ task[j].admitted
        /\ task[j].terminal = <<"failed">>
        /\ task[j].user_id \notin downloads

\* C3: after a download has ended no file it created is left on disk.  Every
\* file of temp_dir is created by an admitted download, so whenever no
\* download is registered the directory is empty.
NoFileLeftBehind == downloads = {} => DOMAIN files = {}

\* ceil(S / P), not computed the way the code computes it
CeilDiv(S, P) == CHOOSE n \in 0..S : n * P >= S /\ (n - 1) * P < S

RECURSIVE Concat(_)
Concat(chunks) ==
    IF chunks = <<>> THEN <<>>
    ELSE Concat(SubSeq(chunks, 1, Len(chunks) - 1)) \o chunks[Len(chunks)]

InSplitLoop(j) == task[j].pc \in {"st_part", "send_part", "part_sleep"}

\* C4, inside the loop: the parts written so far are the bytes of the file up
\* to the read position, in order; none is empty, all but the newest have
\* exactly max_bytes bytes, and total_parts is ceil(S / max_bytes).
PartsSoFar(j) ==
    LET t == task[j]
        S == Len(t.f)
        n == Len(t.written)
    IN  /\ t.total_parts = CeilDiv(S, max_bytes)
        /\ n = t.part + 1
        /\ n <= t.total_parts
        /\ Concat(t.written) = SubSeq(t.f, 1, t.f_pos)
        /\ \A i \in 1..n : Len(t.written[i]) > 0
        /\ \A i \in 1..n - 1 : Len(t.written[i]) = max_bytes
        /\ Len(t.written[n]) <= max_bytes

\* C4, when the loop is left with every part sent: ceil(S / max_bytes) parts
\* were written, together they are the S bytes of the file, and the last one
\* has S - max_bytes * (total_parts - 1) bytes.
PartsAtEnd(j) ==
    LET t == task[j]
        S == Len(t.f)
        n == Len(t.written)
    IN  /\ n = CeilDiv(S, max_bytes)
        /\ Concat(t.written) = t.f
        /\ Len(t.written[n]) = S - max_bytes * (n - 1)

\* C4: for every file size S > 0 and part size P > 0 split_and_send writes
\* ceil(S/P) parts that concatenate, in index order, to the S bytes of the
\* file; every part but the last has P bytes, the last S - P*(parts-1), and
\* none is empty.
SplitIsExact ==
    /\ [](\A j \in Jobs : InSplitLoop(j) => PartsSoFar(j))
    /\ [][\A j \in Jobs :
            task[j].pc = "part_sleep" /\ task'[j].pc = "st_completed"
                => PartsAtEnd(j)]_vars

\* C4 witness: a 5-byte file was split into 2 + 2 + 1 bytes and every part sent
SplitInThree ==
    \E j \in Jobs :
        /\ task[j].pc = "st_completed"
        /\ task[j].written = << <<1, 2>>, <<3, 4>>, <<5>> >>
        /\ Len(task[j].sent) = 3

\* C5: a download that ends Completed has sent the whole artifact in one
\* document when its size is at most max_bytes, and otherwise one document per
\* part, ceil(size / max_bytes) of them, in ascending part index.
CompletedSendsMatchSize ==
    \A j \in Jobs :
        task[j].pc = "st_completed" =>
            LET t == task[j]
                n == CeilDiv(t.size, max_bytes)
            IN  IF t.size <= max_bytes
                THEN Len(t.sent) = 1 /\ t.sent[1].name = t.file_path
                ELSE /\ Len(t.sent) = n
                     /\ \A i \in 1..Len(t.sent) :
                            t.sent[i].name = PartPath(t.file_path, i - 1, n)

\* C7: a download whose requester cancelled while it was in its Fetching stage
\* sends no document and does not end Completed.
CancelledJobStops ==
    \A j \in Jobs :
        task[j].cancel_req =>
            task[j].sent = <<>> /\ task[j].pc # "st_completed"

\* C6: every admitted download issues exactly one terminal status, Completed
\* or Failed: none before it reaches its end, one from then on, and one when
\* it has ended.
ExactlyOneTerminalStatus ==
    \A j \in Jobs :
        LET t == task[j] IN
        /\ t.pc \in {"st_completed", "st_failed"} \/ (t.pc = "done" /\ t.admitted)
              => Len(t.terminal) = 1 /\ t.terminal[1] \in {"completed", "failed"}
        /\ t.pc \notin {"st_completed", "st_failed", "done"} => t.terminal = <<>>
        /\ t.pc = "st_completed" => t.terminal = <<"completed">>
        /\ t.pc = "st_failed" => t.terminal = <<"failed">>

\* C6 witness: a download that sent two parts, with a status before each, has
\* ended with the one status Completed
CompletedAfterProgress ==
    \E j \in Jobs :
        /\ task[j].pc = "st_completed"
        /\ Len(task[j].sent) = 2
        /\ task[j].terminal = <<"completed">>

\* C8: when the fetch has returned and the expected path is missing, or the
\* file there is empty, the download fails with the message of that condition,
\* its one terminal status is Failed and it has called send_document not
\* once; a download that goes on to upload or split saw a file of at least
\* one byte.
FetchResultChecked ==
    \A j \in Jobs :
        LET t == task[j] IN
        /\ t.fetched = "missing" => t.pc = "st_failed" /\ t.err = NotFoundMsg
        /\ t.fetched = "empty" => t.pc = "st_failed" /\ t.err = EmptyMsg
        /\ t.fetched \in {"missing", "empty"}
              => t.send_calls = 0 /\ t.sent = <<>> /\ t.terminal = <<"failed">>
        /\ t.pc \in {"st_upload", "send_whole", "st_split", "st_part",
                     "send_part", "part_sleep", "st_completed"}
              => t.fetched = "data" /\ t.size >= 1

\* C8 witness: one download failed on a missing file, another on an empty one
BothFetchFailures ==
    \E j, k \in Jobs :
        /\ task[j].pc = "st_failed" /\ task[j].err = NotFoundMsg
        /\ task[j].fetched = "missing"
        /\ task[k].pc = "st_failed" /\ task[k].err = EmptyMsg
        /\ task[k].fetched = "empty"

SentNames(t) == {t.sent[i].name : i \in 1..Len(t.sent)}

\* C9: a send_document that fails is not retried and is fatal: a download
\* has at most one call of send_document that did not deliver, no document is
\* sent twice, and after the failed call the download is at its Failed
\* status, the one terminal status it issues.
SendFailureIsFatal ==
    \A j \in Jobs :
        LET t == task[j] IN
        /\ Cardinality(SentNames(t)) = Len(t.sent)
        /\ t.send_calls \in {Len(t.sent), Len(t.sent) + 1}
        /\ t.send_calls > Len(t.sent)
              => /\ t.pc = "st_failed"
                 /\ t.err = "send_document failed"
                 /\ t.terminal = <<"failed">>

\* C9 witness: the second part failed after the first was sent
SecondPartFailed ==
    \E j \in Jobs :
        /\ task[j].pc = "st_failed"
        /\ task[j].err = "send_document failed"
        /\ Len(task[j].sent) = 1
        /\ task[j].send_calls = 2

\* what makes download fail: the fetcher, the file system, a document send
Failures ==
    {"extract_info failed", "download failed", NotFoundMsg, EmptyMsg,
     "no such file", "send_document failed"}

\* C10: a status update makes at most 3 edit attempts and never raises: a
\* download fails only on the fetcher, the file system or a document send,
\* whatever the outcomes of its status updates, and a download that was
\* admitted and did not fail ends Completed.
StatusUpdateNeverFatal ==
    \A j \in Jobs :
        LET t == task[j] IN
        /\ t.attempts <= StatusRetries
        /\ t.pc = "st_failed" => t.err \in Failures
        /\ t.pc # "st_failed" => t.err = "none"
        /\ t.pc = "done" /\ t.admitted /\ t.attempts < StatusRetries
              => t.terminal \in {<<"completed">>, <<"failed">>}

\* C10 witness: all 3 edits of the Completed status failed; the download has
\* ended Completed all the same and its slot is free
TerminalUpdateDropped ==
    \E j \in Jobs :
        /\ task[j].pc = "done"
        /\ task[j].terminal = <<"completed">>
        /\ task[j].attempts = StatusRetries
        /\ task[j].released = 1
        /\ task[j].user_id \notin downloads

\* C12: the local paths of two downloads that run at the same time are
\* distinct: no two live downloads have the same artifact path (the part paths
\* are derived from it).
PathsOwnedByOneJob ==
    \A j, k \in Jobs :
        /\ j # k
        /\ Active(j) /\ Active(k)
        /\ task[j].file_path # NoPath
        /\ task[k].file_path # NoPath
        => task[j].file_path # task[k].file_path

\* C13: a call of download rejected as busy changes nothing of the downloads:
\* it is never admitted, resolves no filename, fetches nothing, sends no
\* document, issues no terminal status and releases no slot, so every live
\* download stays in the registry until its own finally clause.
BusyCallHasNoEffect ==
    /\ \A j \in Jobs :
          LET t == task[j] IN
          t.pc = "busy_send" \/ (t.pc = "done" /\ ~t.admitted)
             => /\ ~t.admitted
                /\ t.released = 0
                /\ t.file_path = NoPath
                /\ t.fetched = "none"
                /\ t.send_calls = 0
                /\ t.sent = <<>>
                /\ t.terminal = <<>>
    /\ \A k \in Jobs : Active(k) => task[k].user_id \in downloads

\* C13 witness: a call of the requester was rejected as busy, and the
\* requester's live download, registered still, is sending its document
RejectedWhileSending ==
    \E j, k \in Jobs :
        /\ task[j].pc = "busy_send"
        /\ ~task[j].admitted
        /\ task[j].released = 0
        /\ task[k].pc = "send_whole"
        /\ task[k].user_id = task[j].user_id
        /\ task[k].user_id \in downloads
        /\ downloads = {task[k].user_id}

\* the part files on disk
PartFiles == {p \in DOMAIN files : p[3] > 0}

\* C14: while a download splits, at most one part file is on disk: the part
\* it has written and not sent yet.  Between a send and the next write no
\* part file exists, and as many parts were sent as were written.
OnePartFileAtATime ==
    /\ Cardinality(PartFiles) <= 1
    /\ \A j \in Jobs :
          LET t == task[j] IN
          /\ t.pc \in {"st_part", "send_part"}
                => /\ PartFiles = {PartPath(t.file_path, t.part, t.total_parts)}
                   /\ Len(t.written) = Len(t.sent) + 1
                   /\ Len(t.sent) = t.part
          /\ t.pc = "part_sleep"
                => /\ PartFiles = {}
                   /\ Len(t.written) = Len(t.sent)
                   /\ Len(t.sent) = t.part + 1

\* C14 witness: the second part is on disk, alone, after the first was sent
SecondPartAlone ==
    \E j \in Jobs :
        /\ task[j].pc = "send_part"
        /\ task[j].part = 1
        /\ Len(task[j].sent) = 1
        /\ PartFiles = {PartPath(task[j].file_path, 1, task[j].total_parts)}

\* C15: the fetch is called only after extract_info has returned and the
\* filename was computed from it; when extract_info raises the download is at
\* its Failed status with no fetch called and no document sent.
ResolutionBeforeFetch ==
    \A j \in Jobs :
        LET t == task[j] IN
        /\ t.pc = "st_analyze" => t.file_path = NoPath /\ t.fetched = "none"
        /\ t.pc = "st_downloading"
              => t.file_path = ArtifactPath(t.url, t.quality) /\ t.fetched = "none"
        /\ t.fetched # "none" => t.file_path = ArtifactPath(t.url, t.quality)
        /\ t.err = "extract_info failed"
              => /\ t.pc = "st_failed"
                 /\ t.file_path = NoPath
                 /\ t.fetched = "none"
                 /\ t.send_calls = 0
                 /\ t.sent = <<>>
                 /\ t.terminal = <<"failed">>

\* C15 witness: one download failed in extract_info, another has fetched a
\* file under the name it resolved
ResolvedAndUnresolved ==
    \E j, k \in Jobs :
        /\ task[j].pc = "st_failed"
        /\ task[j].err = "extract_info failed"
        /\ task[j].fetched = "none"
        /\ task[k].fetched = "data"
        /\ task[k].file_path = ArtifactPath(task[k].url, task[k].quality)

\* C19: the pending url of a requester is removed only by the requester's own
\* cancel callback (which changes no download) or by the end of an admitted
\* download of the requester that was started from that url.
PendingRemovedOnlyByOwner ==
    [][\A u \in Users :
          u \in DOMAIN pending_downloads /\ u \notin DOMAIN pending_downloads'
          => \/ task' = task
             \/ \E j \in Jobs :
                   /\ task[j].user_id = u
                   /\ task[j].admitted
                   /\ task[j].pc # "done"
                   /\ task'[j].pc = "done"
                   /\ task[j].url = pending_downloads[u]]_vars

\* C18: every admitted download ends: when its calls to the fetcher and to
\* Telegram all return, it reaches the end of download with its terminal
\* status issued and its requester out of the registry.
EveryJobEnds ==
    \A j \in SoloJobs :
        Active(j) ~>
            /\ task[j].pc = "done"
            /\ task[j].admitted
            /\ task[j].released = 1
            /\ Len(task[j].terminal) = 1
            /\ task[j].user_id \notin downloads

\* C18 witness: a download has ended Completed with its last status delivered
\* at the first edit; nobody is registered and the directory is empty
JobEndedAndReleased ==
    \E j \in SoloJobs :
        /\ task[j].pc = "done"
        /\ task[j].admitted
        /\ task[j].released = 1
        /\ task[j].attempts = 0
        /\ task[j].terminal = <<"completed">>
        /\ downloads = {}
        /\ DOMAIN files = {}

\* the downloading events of a fetch, in order
Downloading(evs) == SelectSeq(evs, LAMBDA d : d.status = "downloading")

\* C11: any two progress status updates of a download that are delivered are
\* at least one interval (1 second) apart, however many progress events the
\* fetch had.
ProgressThrottled ==
    \A j \in Jobs :
        LET log == task[j].progress_log IN
        \A a, b \in 1..Len(log) :
            a < b /\ log[a].delivered /\ log[b].delivered
                => log[b].time > log[a].time

\* C16: every downloading event of the fetch has one status update scheduled:
\* the percentage text when the total is known and positive, the byte count
\* text otherwise.
EveryEventScheduled ==
    \A j \in Jobs :
        LET t == task[j]
            dl == Downloading(t.events)
        IN  /\ Len(t.scheduled) = Len(dl)
            /\ \A i \in 1..Len(t.scheduled) :
                   t.scheduled[i] = IF dl[i].total = "positive"
                                    THEN "percent" ELSE "bytes"

\* C17: no progress status update is written to the status message after the
\* terminal status of the download was issued on it.
TerminalStatusIsLast ==
    \A j \in Jobs :
        LET log == task[j].progress_log IN
        \A i \in 1..Len(log) : ~(log[i].late /\ log[i].delivered)

====
